---- MODULE Spec2Model ----
(***************************************************************************)
(* Move dispatch and lifecycle engine of swift-move                        *)
(* (src/services/moveRequestService.js and the handlers that write the     *)
(* same Move and Driver documents).                                        *)
(*                                                                         *)
(* Storage model.  Handlers run as MongoDB multi-document transactions     *)
(* (snapshot isolation): a transaction reads the committed state as of its *)
(* first read, its writes become visible at commit, a write to a document  *)
(* that another transaction committed after the snapshot, or that another  *)
(* open transaction has already written, fails with a write conflict.      *)
(* session.withTransaction re-runs its callback after a write conflict;    *)
(* the handlers that call startTransaction/commitTransaction themselves    *)
(* abort and rethrow.  Writes made without a session (findByIdAndUpdate in *)
(* the controllers) are single atomic document updates that wait for an    *)
(* open transaction holding the document.                                  *)
(*                                                                         *)
(* Driver documents and their users are 1:1; one identifier stands for     *)
(* both.                                                                   *)
(***************************************************************************)
EXTENDS Integers, FiniteSets, Sequences, TLC

\* ---------------------------------------------------------------- bounds
MaxMoves == 2          \* Move documents the collection can hold
MaxOrders == 1         \* Move documents created in the full specification
NumDrivers == 2
NumCustomers == 2
MaxCalls == 2

MoveIds == 1..MaxMoves
OrderIds == 1..MaxOrders
DriverIds == 1..NumDrivers
CustomerIds == 1..NumCustomers
OrderingCustomerIds == 1..MaxOrders   \* the customers who order in the full specification
CallIds == 1..MaxCalls

\* ------------------------------------------------------- program constants
MAX_DRIVER_SEARCH_ATTEMPTS == 3

PENDING == "pending"
ACCEPTED == "accepted"
ARRIVED_AT_PICKUP == "arrived_at_pickup"
PICKED_UP == "picked_up"
ARRIVED_AT_DELIVERY == "arrived_at_delivery"
DELIVERED == "delivered"
CANCELLED_BY_CUSTOMER == "cancelled_by_customer"
CANCELLED_BY_DRIVER == "cancelled_by_driver"
CANCELLED_BY_ADMIN == "cancelled_by_admin"
NO_DRIVERS_AVAILABLE == "no_drivers_available"

moveStatus ==
  { PENDING, ACCEPTED, ARRIVED_AT_PICKUP, PICKED_UP, ARRIVED_AT_DELIVERY,
    DELIVERED, CANCELLED_BY_CUSTOMER, CANCELLED_BY_DRIVER, CANCELLED_BY_ADMIN,
    NO_DRIVERS_AVAILABLE }

CUSTOMER == "customer"
DRIVER == "driver"
ADMIN == "admin"

terminalStates ==
  { DELIVERED, CANCELLED_BY_ADMIN, CANCELLED_BY_CUSTOMER, CANCELLED_BY_DRIVER,
    NO_DRIVERS_AVAILABLE }

\* the flow table of _isValidStatusTransition
flow(currentStatus) ==
  CASE currentStatus = PENDING ->
         { ACCEPTED, NO_DRIVERS_AVAILABLE, CANCELLED_BY_CUSTOMER,
           CANCELLED_BY_ADMIN }
    [] currentStatus = ACCEPTED ->
         { ARRIVED_AT_PICKUP, CANCELLED_BY_CUSTOMER, CANCELLED_BY_DRIVER,
           CANCELLED_BY_ADMIN }
    [] currentStatus = ARRIVED_AT_PICKUP ->
         { PICKED_UP, CANCELLED_BY_CUSTOMER, CANCELLED_BY_DRIVER,
           CANCELLED_BY_ADMIN }
    [] currentStatus = PICKED_UP ->
         { ARRIVED_AT_DELIVERY, CANCELLED_BY_CUSTOMER, CANCELLED_BY_DRIVER,
           CANCELLED_BY_ADMIN }
    [] currentStatus = ARRIVED_AT_DELIVERY ->
         { DELIVERED, CANCELLED_BY_ADMIN }
    [] OTHER -> {}

IsValidStatusTransitionNoTerminalCheck(currentStatus, newStatus) ==
  newStatus \in (flow(currentStatus) \cup
                 IF currentStatus \in terminalStates THEN moveStatus ELSE {})

IsValidStatusTransition(currentStatus, newStatus) ==
  IF currentStatus \in terminalStates
    THEN FALSE
    ELSE newStatus \in flow(currentStatus)

\* ------------------------------------------------------------ value spaces
NoDriver == 0          \* move.driver absent
NoMove == "none"       \* no Move document with this id yet
RolledBack == "rolled_back"   \* the id of a Move whose creation never committed
Undefined == -1        \* a field that is not there
\* no entry in the pendingDriverNotifications Map
NoNotificationState ==
  [ attempt |-> 0, currentDriverId |-> Undefined, currentDriverUserId |-> Undefined,
    excludedDriverIds |-> {}, timeoutId |-> [moveId |-> 0, round |-> 0] ]

VehicleTypes == {"car", "van"}
\* payment.method is a free String of the Move schema that no handler writes;
\* updateMoveProgress reads it on DELIVERED.  "unread" until that first read.
PaymentMethods == {"CASH", "VISA", "none"}
\* coordinates: the schema default, the point a driver reports when going
\* online, the delivery point of a move
Origin == "origin"
OnlineCoordinates == {Origin}
DeliveryCoordinates == {"delivery"}

MoveDoc(m) == <<"move", m>>
DriverDoc(d) == <<"driver", d>>

VARIABLES
  moves,                        \* Move collection: MoveIds -> document
  drivers,                      \* Driver collection: DriverIds -> document
  pendingDriverNotifications,   \* the service's Map: MoveIds -> state
  timers,                       \* live setTimeout handles (moveId, round)
  paymentMethod,                \* payment.method of each Move document
  checkoutSessions,             \* moves with a Stripe checkout session not yet paid
  calls,                        \* handler invocations in flight
  ret                           \* what the invocation that just finished returned

vars == <<moves, drivers, pendingDriverNotifications, timers, paymentMethod, checkoutSessions, calls, ret>>

\* ------------------------------------------------------------------ helpers
None == [op |-> "none"]
Idle == [op |-> "idle", pc |-> "idle"]
Stranger == 0          \* a user id that owns no Driver document / no User document

NoMoveDoc ==
  [ status |-> NoMove, customer |-> 0, driver |-> NoDriver, vehicleType |-> "car",
    delivery |-> Origin, payStatus |-> "pending" ]

Init ==
  /\ moves = [m \in MoveIds |-> NoMoveDoc]
  /\ drivers = [d \in DriverIds |->
                  [ isAvailable |-> FALSE, status |-> "accepted",
                    vehicle |-> "car", currentLocation |-> Origin ]]
  /\ pendingDriverNotifications = [m \in MoveIds |-> NoNotificationState]
  /\ timers = {}
  /\ paymentMethod = [m \in MoveIds |-> "unread"]
  /\ checkoutSessions = {}
  /\ calls = [c \in CallIds |-> Idle]
  /\ ret = None

\* a transaction is open from its first read until it commits or aborts
InTxn(call) == call.op # "idle" /\ call.pc \notin {"txn", "post", "reject"}

\* WriteConflict: the document was committed by someone else after this
\* transaction's snapshot, or another open transaction has written it
CanWriteIgnoringConflicts(c, doc) == TRUE

CanWrite(c, doc) ==
  /\ doc \notin calls[c].stale
  /\ \A c2 \in CallIds \ {c} : InTxn(calls[c2]) => doc \notin calls[c2].locks

\* a write made outside any session waits while an open transaction holds the document
Unlocked(doc) == \A c \in CallIds : InTxn(calls[c]) => doc \notin calls[c].locks

\* the documents an open transaction has yet to write (a conflict can only
\* show at one of these writes)
ToWrite(call) ==
  CASE call.op = "acceptMoveRequest" /\ call.pc = "saveMove" ->
         {MoveDoc(call.m), DriverDoc(call.u)}
    [] call.op = "acceptMoveRequest" /\ call.pc = "saveDriver" -> {DriverDoc(call.u)}
    [] call.op = "updateMoveProgress" /\ call.pc = "saveMove" ->
         {MoveDoc(call.m)} \cup
           IF call.newStatus = DELIVERED THEN {DriverDoc(call.u)} ELSE {}
    [] call.op = "updateMoveProgress" /\ call.pc = "finalize" -> {DriverDoc(call.u)}
    [] call.op = "cancelMoveRequest" /\ call.pc = "saveDriver" ->
         {DriverDoc(call.driver), MoveDoc(call.m)}
    [] call.op = "cancelMoveRequest" /\ call.pc = "saveMove" -> {MoveDoc(call.m)}
    [] OTHER -> {}

\* the calls array after documents `docs` were committed by call `by` (0: no call),
\* with call `by` replaced by `after`
Committed(by, after, docs) ==
  [c \in CallIds |->
     IF c = by THEN after
     ELSE IF InTxn(calls[c])
       THEN [calls[c] EXCEPT !.stale = @ \cup (docs \cap ToWrite(calls[c]))]
       ELSE calls[c]]

\* the result of a handler stays in ret until the controller has answered
Ready == ret = None

FreeCall(c) ==
  /\ Ready
  /\ calls[c].op = "idle"
  /\ \A c2 \in CallIds : c2 < c => calls[c2].op # "idle"

Return(c, r) ==
  /\ calls' = [calls EXCEPT ![c] = Idle]
  /\ ret' = r

\* Move.findById(moveId) finds nothing
NotFound(m) == moves[m].status \in {NoMove, RolledBack}

\* ------------------------------------------------------------ initiateNewMove
ActiveMoveOf(customerId) ==
  \E m \in MoveIds :
     /\ moves[m].status \notin terminalStates \cup {NoMove, RolledBack}
     /\ moves[m].customer = customerId

\* an id is left for one more Move document: fewer documents and creations
\* in flight than `limit`
MoveIdLeft(limit) ==
  Cardinality({m \in MoveIds : moves[m].status # NoMove})
    + Cardinality({c \in CallIds : calls[c].op = "initiateNewMove"}) < limit

\* Move.findOne({customer, status: {$nin: terminalStates}}), outside the transaction
InitiateNewMove(c, customerId, vehicleType, delivery, scheduled, limit) ==
  /\ FreeCall(c)
  /\ ActiveMoveOf(customerId) \/ MoveIdLeft(limit)
  /\ IF ActiveMoveOf(customerId)
       THEN Return(c, [op |-> "initiateNewMove", code |-> 409, m |-> 0, u |-> customerId])
       ELSE /\ calls' = [calls EXCEPT ![c] =
                          [ op |-> "initiateNewMove", pc |-> "txn", u |-> customerId,
                            vehicleType |-> vehicleType, delivery |-> delivery,
                            scheduled |-> scheduled ]]
            /\ ret' = None
  /\ UNCHANGED <<moves, drivers, pendingDriverNotifications, timers, paymentMethod, checkoutSessions>>

\* googleMapsService.getNearbyDrivers: Driver.find without a session; the
\* drivers of the class that are online and approved (the radius decides which
\* of them are near, and $near their order)
EligibleDrivers(vehicleType) ==
  { d \in DriverIds : /\ drivers[d].vehicle = vehicleType
                      /\ drivers[d].isAvailable
                      /\ drivers[d].status = "accepted" }

\* what getNearbyDrivers maps a Driver document to: driverId is the user's id,
\* and the objects carry no driverUserId
Candidate(d) == [driverId |-> d, driverUserId |-> Undefined]

\* the Map entry written when `candidate` is offered move m in round `attempt`,
\* `excluded` being the drivers asked before
NewNotificationStateNotExcluding(m, attempt, candidate, excluded) ==
  [ attempt |-> attempt,
    currentDriverId |-> candidate.driverId,
    currentDriverUserId |-> candidate.driverUserId,
    excludedDriverIds |-> excluded,
    timeoutId |-> [moveId |-> m, round |-> attempt] ]

NewNotificationState(m, attempt, candidate, excluded) ==
  [ attempt |-> attempt,
    currentDriverId |-> candidate.driverId,
    currentDriverUserId |-> candidate.driverUserId,
    excludedDriverIds |-> excluded \cup {candidate.driverId},
    timeoutId |-> [moveId |-> m, round |-> attempt] ]

NewMoveDoc(call, status) ==
  [ status |-> status, customer |-> call.u, driver |-> NoDriver,
    vehicleType |-> call.vehicleType, delivery |-> call.delivery,
    payStatus |-> "pending" ]

\* move.scheduledFor && move.scheduledFor > now + 5 min
ScheduledForLaterIgnored(call) == FALSE

ScheduledForLater(call) == call.scheduled

\* the withTransaction callback of initiateNewMove with _findAndNotifyDrivers
InitiateNewMoveTxn(c) ==
  LET call == calls[c]
      m == CHOOSE x \in MoveIds :
             /\ moves[x].status = NoMove
             /\ \A y \in MoveIds : moves[y].status = NoMove => x <= y
      failed(code) ==
        /\ Return(c, [op |-> "initiateNewMove", code |-> code, m |-> 0, u |-> call.u])
        /\ UNCHANGED <<moves, drivers, pendingDriverNotifications, timers>>
      done == Return(c, [op |-> "initiateNewMove", code |-> 200, m |-> m, u |-> call.u])
  IN
  /\ Ready /\ call.op = "initiateNewMove" /\ call.pc = "txn"
  /\ UNCHANGED <<paymentMethod, checkoutSessions>>
  /\ \/ /\ call.u \notin CustomerIds          \* Customer not found
        /\ failed(404)
     \/ /\ call.u \in CustomerIds             \* pricing or geo provider throws
        /\ failed(500)
     \/ /\ call.u \in CustomerIds /\ ScheduledForLater(call)
        /\ moves' = [moves EXCEPT ![m] = NewMoveDoc(call, PENDING)]
        /\ UNCHANGED <<drivers, pendingDriverNotifications, timers>>
        /\ done
     \/ /\ call.u \in CustomerIds /\ ~ScheduledForLater(call)
        /\ \E near \in SUBSET EligibleDrivers(call.vehicleType) :
             IF near = {}
               THEN /\ moves' = [moves EXCEPT ![m] = NewMoveDoc(call, NO_DRIVERS_AVAILABLE)]
                    /\ UNCHANGED <<drivers, pendingDriverNotifications, timers>>
                    /\ done
               ELSE \E d \in near :
                    LET driverToNotify == Candidate(d)
                        timeoutId == [moveId |-> m, round |-> 1]
                    IN
                    /\ pendingDriverNotifications' =
                         [pendingDriverNotifications EXCEPT ![m] =
                            NewNotificationState(m, 1, driverToNotify, {})]
                    /\ timers' = timers \cup {timeoutId}
                    /\ UNCHANGED drivers
                    /\ \/ /\ moves' = [moves EXCEPT ![m] = NewMoveDoc(call, PENDING)]
                          /\ done
                       \* the commit that withTransaction issues after the
                       \* callback fails: the document is gone, the Map entry
                       \* and the timer made by the callback are not
                       \/ /\ moves' = [moves EXCEPT ![m].status = RolledBack]
                          /\ Return(c, [op |-> "initiateNewMove", code |-> 500,
                                        m |-> 0, u |-> call.u])

\* ---------------------------------------------------------- acceptMoveRequest
AcceptRet(m, u, code, raced) ==
  [op |-> "acceptMoveRequest", code |-> code, m |-> m, u |-> u, raced |-> raced]

\* the precondition checks of the callback, on the transaction's snapshot:
\* 0 when they pass, else the status code of the ApiError thrown
AcceptCheckMoveNotChecked(m, u) ==
  IF NotFound(m) THEN 404
  ELSE IF u \notin DriverIds THEN 404
  ELSE IF ~drivers[u].isAvailable \/ drivers[u].status # "accepted" THEN 400
  ELSE IF drivers[u].vehicle # moves[m].vehicleType THEN 400
  ELSE 0

AcceptCheck(m, u) ==
  IF NotFound(m) THEN 404
  ELSE IF moves[m].status # PENDING THEN 409
  ELSE IF moves[m].driver # NoDriver THEN 409
  ELSE IF u \notin DriverIds THEN 404
  ELSE IF ~drivers[u].isAvailable \/ drivers[u].status # "accepted" THEN 400
  ELSE IF drivers[u].vehicle # moves[m].vehicleType THEN 400
  ELSE 0

\* first run of the callback (c idle) or a re-run after a write conflict;
\* raced: the call has lost a write of the Move document to another transaction
AcceptRead(c, m, u, raced) ==
  /\ IF AcceptCheck(m, u) # 0
       THEN Return(c, AcceptRet(m, u, AcceptCheck(m, u), raced))
       ELSE /\ calls' = [calls EXCEPT ![c] =
                          [ op |-> "acceptMoveRequest", pc |-> "saveMove", m |-> m,
                            u |-> u, raced |-> raced, stale |-> {}, locks |-> {} ]]
            /\ ret' = None
  /\ UNCHANGED <<moves, drivers, pendingDriverNotifications, timers, paymentMethod, checkoutSessions>>

AcceptMoveRequest(c, m, u) ==
  /\ FreeCall(c)
  /\ AcceptRead(c, m, u, FALSE)

AcceptRetry(c) ==
  /\ Ready /\ calls[c].op = "acceptMoveRequest" /\ calls[c].pc = "retry"
  /\ AcceptRead(c, calls[c].m, calls[c].u, calls[c].raced)

\* move.save({ session })
AcceptSaveMove(c) ==
  LET call == calls[c] IN
  /\ Ready /\ call.op = "acceptMoveRequest" /\ call.pc = "saveMove"
  /\ calls' = [calls EXCEPT ![c] =
                 IF CanWrite(c, MoveDoc(call.m))
                   THEN [call EXCEPT !.pc = "saveDriver", !.locks = {MoveDoc(call.m)},
                                     !.stale = @ \ {MoveDoc(call.m)}]
                   ELSE [call EXCEPT !.pc = "retry", !.locks = {}, !.stale = {},
                                     !.raced = TRUE]]
  /\ ret' = None
  /\ UNCHANGED <<moves, drivers, pendingDriverNotifications, timers, paymentMethod, checkoutSessions>>

\* what the committed transaction of acceptMoveRequest writes
AcceptedMoveKeepingStatus(move, d) == [move EXCEPT !.driver = d]

AcceptedMove(move, d) == [move EXCEPT !.driver = d, !.status = ACCEPTED]

AcceptedDriver(driver) == [driver EXCEPT !.isAvailable = FALSE]

\* driver.save({ session }), the read of the Map, and the commit
AcceptSaveDriver(c) ==
  LET call == calls[c] IN
  /\ Ready /\ call.op = "acceptMoveRequest" /\ call.pc = "saveDriver"
  /\ IF CanWrite(c, DriverDoc(call.u))
       THEN /\ moves' = [moves EXCEPT ![call.m] = AcceptedMove(@, call.u)]
            /\ drivers' = [drivers EXCEPT ![call.u] = AcceptedDriver(@)]
            /\ calls' = Committed(c,
                           [ op |-> "acceptMoveRequest", pc |-> "post", m |-> call.m,
                             u |-> call.u, raced |-> call.raced,
                             notificationState |-> pendingDriverNotifications[call.m] ],
                           {MoveDoc(call.m), DriverDoc(call.u)})
       ELSE /\ calls' = [calls EXCEPT ![c] =
                           [call EXCEPT !.pc = "retry", !.locks = {}, !.stale = {}]]
            /\ UNCHANGED <<moves, drivers>>
  /\ ret' = None
  /\ UNCHANGED <<pendingDriverNotifications, timers, paymentMethod, checkoutSessions>>

\* after the commit: clear the solicitation, compute the ETA, notify, return.
\* route stays undefined when calculateRoute throws, and route.distance then
\* throws into the catch block, which rethrows as a 500
AcceptPost(c, routeOk) ==
  LET call == calls[c] IN
  /\ Ready /\ call.op = "acceptMoveRequest" /\ call.pc = "post"
  /\ IF call.notificationState # NoNotificationState
       THEN /\ timers' = timers \ {call.notificationState.timeoutId}
            /\ pendingDriverNotifications' =
                 [pendingDriverNotifications EXCEPT ![call.m] = NoNotificationState]
       ELSE UNCHANGED <<pendingDriverNotifications, timers>>
  /\ Return(c, AcceptRet(call.m, call.u, IF routeOk THEN 200 ELSE 500, call.raced))
  /\ UNCHANGED <<moves, drivers, paymentMethod, checkoutSessions>>

\* --------------------------------------------------------- updateMoveProgress
\* payment: the payment branch the invocation ran before it returned ("none":
\* it ran neither)
ProgressRet(m, u, code) ==
  [op |-> "updateMoveProgress", code |-> code, m |-> m, u |-> u, payment |-> "none"]

\* 0 when the checks pass, else the status code of the ApiError thrown
ProgressCheckAnyDriver(m, u, newStatus) ==
  IF NotFound(m) THEN 404
  ELSE IF moves[m].status = DELIVERED THEN 400
  ELSE IF ~IsValidStatusTransition(moves[m].status, newStatus) THEN 400
  ELSE 0

ProgressCheck(m, u, newStatus) ==
  IF NotFound(m) THEN 404
  ELSE IF moves[m].driver = NoDriver \/ moves[m].driver # u THEN 403
  ELSE IF moves[m].status = DELIVERED THEN 400
  ELSE IF ~IsValidStatusTransition(moves[m].status, newStatus) THEN 400
  ELSE 0

UpdateMoveProgress(c, m, u, newStatus) ==
  /\ FreeCall(c)
  /\ IF ProgressCheck(m, u, newStatus) # 0
       THEN Return(c, ProgressRet(m, u, ProgressCheck(m, u, newStatus)))
       ELSE /\ calls' = [calls EXCEPT ![c] =
                          [ op |-> "updateMoveProgress", pc |-> "saveMove", m |-> m,
                            u |-> u, newStatus |-> newStatus, stale |-> {},
                            locks |-> {} ]]
            /\ ret' = None
  /\ UNCHANGED <<moves, drivers, pendingDriverNotifications, timers, paymentMethod, checkoutSessions>>

\* _finalizeMoveCompletion: Driver.findByIdAndUpdate(move.driver._id, ...)
FinalizedDriverStaysBusy(driver, move) == [driver EXCEPT !.currentLocation = move.delivery]

FinalizedDriver(driver, move) ==
  [driver EXCEPT !.isAvailable = TRUE, !.currentLocation = move.delivery]

\* the payment branch taken on DELIVERED
PaidMove(move, method) ==
  IF method = "CASH" THEN [move EXCEPT !.payStatus = "completed"] ELSE move

\* move.status = newStatus; move.save({ session }).  A write conflict is no
\* ApiError: the catch block aborts and rethrows it as a 500.  For a status
\* other than DELIVERED the commit follows at once.
ProgressSaveMove(c) ==
  LET call == calls[c] IN
  /\ Ready /\ call.op = "updateMoveProgress" /\ call.pc = "saveMove"
  /\ IF ~CanWrite(c, MoveDoc(call.m))
       THEN /\ Return(c, ProgressRet(call.m, call.u, 500))
            /\ UNCHANGED <<moves, paymentMethod, checkoutSessions>>
       ELSE IF call.newStatus = DELIVERED
         THEN /\ calls' = [calls EXCEPT ![c] =
                             [call EXCEPT !.pc = "finalize", !.locks = {MoveDoc(call.m)},
                                          !.stale = @ \ {MoveDoc(call.m)}]]
              /\ ret' = None
              /\ \E method \in PaymentMethods :
                    paymentMethod' =
                      [paymentMethod EXCEPT ![call.m] = IF @ = "unread" THEN method ELSE @]
              /\ UNCHANGED <<moves, checkoutSessions>>
         ELSE /\ moves' = [moves EXCEPT ![call.m].status = call.newStatus]
              /\ calls' = Committed(c, Idle, {MoveDoc(call.m)})
              /\ ret' = ProgressRet(call.m, call.u, 200)
              /\ UNCHANGED <<paymentMethod, checkoutSessions>>
  /\ UNCHANGED <<drivers, pendingDriverNotifications, timers>>

\* the side effects of the payment branch, which no abort takes back: CASH
\* notifies the customer "move:payment_completed", VISA creates the Stripe
\* checkout session and sends its url; any other method runs neither
PaymentBranch(method) == IF method \in {"CASH", "VISA"} THEN method ELSE "none"

\* newStatus = DELIVERED: payment, _finalizeMoveCompletion, commit.
\* stripeOk: stripe.checkout.sessions.create did not throw (VISA only).
\* The payment branch has run when _finalizeMoveCompletion writes the driver.
ProgressFinalize(c, stripeOk) ==
  LET call == calls[c]
      move == moves[call.m]
      d == call.u
      payment == PaymentBranch(paymentMethod[call.m])
      \* stripe.checkout.sessions.create has answered
      created == checkoutSessions' =
                   IF payment = "VISA" THEN checkoutSessions \cup {call.m}
                                       ELSE checkoutSessions
  IN
  /\ Ready /\ call.op = "updateMoveProgress" /\ call.pc = "finalize"
  /\ IF paymentMethod[call.m] = "VISA" /\ ~stripeOk
       THEN /\ Return(c, ProgressRet(call.m, call.u, 500))
            /\ UNCHANGED <<moves, drivers, checkoutSessions>>
     ELSE IF ~CanWrite(c, DriverDoc(d))
       THEN /\ Return(c, [ProgressRet(call.m, call.u, 500) EXCEPT !.payment = payment])
            /\ created
            /\ UNCHANGED <<moves, drivers>>
       ELSE /\ moves' = [moves EXCEPT ![call.m] = PaidMove([@ EXCEPT !.status = DELIVERED], paymentMethod[call.m])]
            /\ drivers' = [drivers EXCEPT ![d] = FinalizedDriver(@, move)]
            /\ calls' = Committed(c, Idle, {MoveDoc(call.m), DriverDoc(d)})
            /\ ret' = [ProgressRet(call.m, call.u, 200) EXCEPT !.payment = payment]
            /\ created
  /\ UNCHANGED <<pendingDriverNotifications, timers, paymentMethod>>

\* ---------------------------------------------------------- cancelMoveRequest
CancelRet(m, u, role, code, from) ==
  [op |-> "cancelMoveRequest", code |-> code, m |-> m, u |-> u, role |-> role,
   from |-> from]

\* the actor/state table: the new status, or "" when canCancel stays false
CancelTarget(move, u, role) ==
  IF role = CUSTOMER /\ move.customer = u
    THEN IF move.status \in {PENDING, ACCEPTED} THEN CANCELLED_BY_CUSTOMER ELSE ""
  ELSE IF role = DRIVER /\ move.driver # NoDriver /\ move.driver = u
    THEN IF move.status \in {ACCEPTED, ARRIVED_AT_PICKUP} THEN CANCELLED_BY_DRIVER ELSE ""
  ELSE IF role = ADMIN THEN CANCELLED_BY_ADMIN
  ELSE ""

\* reads, the actor/state check, and which documents the transaction will save:
\* driverDoc.save() writes only when isAvailable was false in the snapshot
CancelMoveRequest(c, m, u, role) ==
  /\ FreeCall(c)
  /\ IF NotFound(m)
       THEN Return(c, CancelRet(m, u, role, 404, NoMove))
     ELSE IF CancelTarget(moves[m], u, role) = ""
       THEN Return(c, CancelRet(m, u, role, 403, moves[m].status))
     ELSE /\ calls' = [calls EXCEPT ![c] =
                        [ op |-> "cancelMoveRequest",
                          pc |-> IF moves[m].driver # NoDriver
                                    /\ ~drivers[moves[m].driver].isAvailable
                                   THEN "saveDriver" ELSE "saveMove",
                          m |-> m, u |-> u, role |-> role,
                          newStatus |-> CancelTarget(moves[m], u, role),
                          from |-> moves[m].status,
                          driver |-> moves[m].driver, stale |-> {}, locks |-> {} ]]
          /\ ret' = None
  /\ UNCHANGED <<moves, drivers, pendingDriverNotifications, timers, paymentMethod, checkoutSessions>>

\* driverDoc.isAvailable = true; driverDoc.save({ session })
CancelSaveDriver(c) ==
  LET call == calls[c] IN
  /\ Ready /\ call.op = "cancelMoveRequest" /\ call.pc = "saveDriver"
  /\ IF CanWrite(c, DriverDoc(call.driver))
       THEN /\ calls' = [calls EXCEPT ![c] =
                           [call EXCEPT !.pc = "saveMove", !.locks = {DriverDoc(call.driver)},
                                        !.stale = @ \ {DriverDoc(call.driver)}]]
            /\ ret' = None
       ELSE Return(c, CancelRet(call.m, call.u, call.role, 500, call.from))
  /\ UNCHANGED <<moves, drivers, pendingDriverNotifications, timers, paymentMethod, checkoutSessions>>

\* what the cancel transaction writes to the assigned driver
ReleasedDriver(driver) == [driver EXCEPT !.isAvailable = TRUE]

\* move.save({ session }) and the commit
CancelSaveMove(c) ==
  LET call == calls[c] IN
  /\ Ready /\ call.op = "cancelMoveRequest" /\ call.pc = "saveMove"
  /\ IF CanWrite(c, MoveDoc(call.m))
       THEN /\ moves' = [moves EXCEPT ![call.m].status = call.newStatus]
            /\ drivers' = IF call.locks = {}
                             THEN drivers
                             ELSE [drivers EXCEPT ![call.driver] = ReleasedDriver(@)]
            /\ calls' = Committed(c, Idle, call.locks \cup {MoveDoc(call.m)})
            /\ ret' = CancelRet(call.m, call.u, call.role, 200, call.from)
       ELSE /\ Return(c, CancelRet(call.m, call.u, call.role, 500, call.from))
            /\ UNCHANGED <<moves, drivers>>
  /\ UNCHANGED <<pendingDriverNotifications, timers, paymentMethod, checkoutSessions>>

\* ------------------------------------------------------ handleDriverRejection
\* The callback of handleDriverRejection for move m and caller u; u is Undefined
\* when handleDriverResponseTimeout passes on notificationState.currentDriverUserId.
\* currentDriverUserId.toString() throws on undefined: the catch block deletes the
\* Map entry and the handler returns normally.
RejectionCallback(m, u) ==
  LET notificationState == pendingDriverNotifications[m]
      forget == pendingDriverNotifications' =
                  [pendingDriverNotifications EXCEPT ![m] = NoNotificationState]
      noDrivers ==
        /\ moves' = [moves EXCEPT ![m].status = NO_DRIVERS_AVAILABLE]
        /\ forget
  IN
  IF notificationState = NoNotificationState
    THEN UNCHANGED <<moves, pendingDriverNotifications, timers>>
  ELSE IF notificationState.currentDriverUserId = Undefined
    THEN forget /\ UNCHANGED <<moves, timers>>
  ELSE IF notificationState.currentDriverUserId # u
    THEN UNCHANGED <<moves, pendingDriverNotifications, timers>>
  ELSE IF moves[m].status # PENDING
    THEN /\ timers' = timers \ {notificationState.timeoutId}
         /\ forget
         /\ UNCHANGED moves
  ELSE IF notificationState.attempt >= MAX_DRIVER_SEARCH_ATTEMPTS
    THEN /\ timers' = timers \ {notificationState.timeoutId}
         /\ noDrivers
  ELSE
    \* getNearbyDrivers throws: the catch block deletes the entry
    \/ /\ timers' = timers \ {notificationState.timeoutId}
       /\ forget
       /\ UNCHANGED moves
    \/ \E near \in SUBSET EligibleDrivers(moves[m].vehicleType) :
         IF near \ notificationState.excludedDriverIds = {}
           THEN /\ timers' = timers \ {notificationState.timeoutId}
                /\ noDrivers
           ELSE \E d \in near \ notificationState.excludedDriverIds :
                LET nextDriverToNotify == Candidate(d)
                    timeoutId == [moveId |-> m, round |-> notificationState.attempt + 1]
                IN
                /\ pendingDriverNotifications' =
                     [pendingDriverNotifications EXCEPT ![m] =
                        NewNotificationState(m, notificationState.attempt + 1,
                                             nextDriverToNotify,
                                             notificationState.excludedDriverIds)]
                /\ timers' = (timers \ {notificationState.timeoutId}) \cup {timeoutId}
                /\ UNCHANGED moves

\* POST /:id/reject by a driver user
HandleDriverRejection(m, u) ==
  /\ Ready
  /\ moves[m].status # NoMove
  /\ Unlocked(MoveDoc(m))
  /\ RejectionCallback(m, u)
  /\ calls' = IF moves' # moves THEN Committed(0, Idle, {MoveDoc(m)}) ELSE calls
  /\ ret' = [op |-> "handleDriverRejection", code |-> 200, m |-> m, u |-> u]
  /\ UNCHANGED <<drivers, paymentMethod, checkoutSessions>>

\* a response timer fires: handleDriverResponseTimeout up to its await
HandleDriverResponseTimeout(c, m, round) ==
  LET t == [moveId |-> m, round |-> round]
      notificationState == pendingDriverNotifications[m]
  IN
  /\ t \in timers
  /\ FreeCall(c)
  /\ IF notificationState = NoNotificationState
       THEN /\ timers' = timers \ {t}
            /\ UNCHANGED calls
       ELSE /\ timers' = timers \ {t, notificationState.timeoutId}
            /\ calls' = [calls EXCEPT ![c] =
                           [ op |-> "handleDriverResponseTimeout", pc |-> "reject",
                             m |-> t.moveId,
                             u |-> notificationState.currentDriverUserId ]]
  /\ ret' = None
  /\ UNCHANGED <<moves, drivers, pendingDriverNotifications, paymentMethod, checkoutSessions>>

\* ... and the handleDriverRejection it awaits
TimeoutRejectionNotAwaited(c) ==
  LET call == calls[c] IN
  /\ Ready /\ call.op = "handleDriverResponseTimeout" /\ call.pc = "reject"
  /\ calls' = [calls EXCEPT ![c] = Idle]
  /\ ret' = None
  /\ UNCHANGED <<moves, drivers, pendingDriverNotifications, timers, paymentMethod, checkoutSessions>>

TimeoutRejection(c) ==
  LET call == calls[c] IN
  /\ Ready /\ call.op = "handleDriverResponseTimeout" /\ call.pc = "reject"
  /\ Unlocked(MoveDoc(call.m))
  /\ RejectionCallback(call.m, call.u)
  /\ calls' = IF moves' # moves
                 THEN Committed(c, Idle, {MoveDoc(call.m)})
                 ELSE [calls EXCEPT ![c] = Idle]
  /\ ret' = None
  /\ UNCHANGED <<drivers, paymentMethod, checkoutSessions>>

\* ------------------------------------------------- writers of the Driver store
\* PUT /drivers/availability: Driver.findByIdAndUpdate(driver._id, updatedFields)
UpdateAvailability(u, isAvailable, coordinates) ==
  /\ Ready
  /\ drivers[u].status = "accepted"
  /\ Unlocked(DriverDoc(u))
  /\ drivers' = [drivers EXCEPT ![u] =
                   IF isAvailable
                     THEN [@ EXCEPT !.isAvailable = TRUE, !.currentLocation = coordinates]
                     ELSE [@ EXCEPT !.isAvailable = FALSE]]
  /\ drivers' # drivers
  /\ calls' = Committed(0, Idle, {DriverDoc(u)})
  /\ ret' = None
  /\ UNCHANGED <<moves, pendingDriverNotifications, timers, paymentMethod, checkoutSessions>>

\* socket disconnect: Driver.findOneAndUpdate({user, isAvailable: true}, {isAvailable: false})
HandleDisconnect(u) ==
  /\ Ready
  /\ drivers[u].isAvailable
  /\ Unlocked(DriverDoc(u))
  /\ drivers' = [drivers EXCEPT ![u].isAvailable = FALSE]
  /\ calls' = Committed(0, Idle, {DriverDoc(u)})
  /\ ret' = None
  /\ UNCHANGED <<moves, pendingDriverNotifications, timers, paymentMethod, checkoutSessions>>

\* POST /webhook/stripe, event checkout.session.completed of a session created
\* for move m: Move.findByIdAndUpdate(moveId, {'payment.status': 'completed'})
StripeWebhook(m) ==
  /\ Ready
  /\ m \in checkoutSessions
  /\ Unlocked(MoveDoc(m))
  /\ moves' = [moves EXCEPT ![m].payStatus = "completed"]
  /\ checkoutSessions' = checkoutSessions \ {m}
  /\ calls' = Committed(0, Idle, {MoveDoc(m)})
  /\ ret' = None
  /\ UNCHANGED <<drivers, pendingDriverNotifications, timers, paymentMethod>>

\* the controller answers: res.status(...).json(...) or next(error)
Respond ==
  /\ ~Ready
  /\ ret' = None
  /\ UNCHANGED <<moves, drivers, pendingDriverNotifications, timers, paymentMethod, checkoutSessions, calls>>

\* -------------------------------------------------------------- specification
Users == DriverIds \cup {Stranger}
Actors ==
  (OrderingCustomerIds \X {CUSTOMER}) \cup (DriverIds \X {DRIVER}) \cup ({Stranger} \X {ADMIN})

Next ==
  \/ \E c \in CallIds, u \in OrderingCustomerIds \cup {Stranger}, v \in VehicleTypes,
        x \in DeliveryCoordinates, s \in BOOLEAN :
        InitiateNewMove(c, u, v, x, s, MaxOrders)
  \/ \E c \in CallIds : InitiateNewMoveTxn(c)
  \/ \E c \in CallIds, m \in OrderIds, u \in Users : AcceptMoveRequest(c, m, u)
  \/ \E c \in CallIds : AcceptRetry(c)
  \/ \E c \in CallIds : AcceptSaveMove(c)
  \/ \E c \in CallIds : AcceptSaveDriver(c)
  \/ \E c \in CallIds, routeOk \in BOOLEAN : AcceptPost(c, routeOk)
  \/ \E c \in CallIds, m \in OrderIds, u \in DriverIds, s \in moveStatus :
        UpdateMoveProgress(c, m, u, s)
  \/ \E c \in CallIds : ProgressSaveMove(c)
  \/ \E c \in CallIds, stripeOk \in BOOLEAN : ProgressFinalize(c, stripeOk)
  \/ \E c \in CallIds, m \in OrderIds, a \in Actors : CancelMoveRequest(c, m, a[1], a[2])
  \/ \E c \in CallIds : CancelSaveDriver(c)
  \/ \E c \in CallIds : CancelSaveMove(c)
  \/ \E m \in OrderIds, u \in DriverIds : HandleDriverRejection(m, u)
  \/ \E c \in CallIds, m \in OrderIds, r \in 1..MAX_DRIVER_SEARCH_ATTEMPTS :
        HandleDriverResponseTimeout(c, m, r)
  \/ \E c \in CallIds : TimeoutRejection(c)
  \/ \E u \in DriverIds, a \in BOOLEAN, x \in OnlineCoordinates : UpdateAvailability(u, a, x)
  \/ \E u \in DriverIds : HandleDisconnect(u)
  \/ \E m \in OrderIds : StripeWebhook(m)
  \/ Respond

Spec == Init /\ [][Next]_vars

\* Order intake: customers create and cancel moves, drivers go on and off line;
\* the collection fills up to MaxMoves documents.
NextOrders ==
  \/ \E c \in CallIds, u \in OrderingCustomerIds \cup {Stranger}, v \in VehicleTypes,
        x \in DeliveryCoordinates, s \in BOOLEAN :
        InitiateNewMove(c, u, v, x, s, MaxMoves)
  \/ \E c \in CallIds : InitiateNewMoveTxn(c)
  \/ \E c \in CallIds, m \in MoveIds, u \in OrderingCustomerIds :
        CancelMoveRequest(c, m, u, CUSTOMER)
  \/ \E c \in CallIds : CancelSaveMove(c)
  \/ \E u \in DriverIds, a \in BOOLEAN, x \in OnlineCoordinates : UpdateAvailability(u, a, x)
  \/ Respond

SpecOrders == Init /\ [][NextOrders]_vars

\* The fleet at work: every customer orders, the drivers accept and go on and
\* off line; the collection fills up to MaxMoves documents.
NextFleet ==
  \/ \E c \in CallIds, u \in CustomerIds, v \in VehicleTypes,
        x \in DeliveryCoordinates, s \in BOOLEAN :
        InitiateNewMove(c, u, v, x, s, MaxMoves)
  \/ \E c \in CallIds : InitiateNewMoveTxn(c)
  \/ \E c \in CallIds, m \in MoveIds, u \in DriverIds : AcceptMoveRequest(c, m, u)
  \/ \E c \in CallIds : AcceptRetry(c)
  \/ \E c \in CallIds : AcceptSaveMove(c)
  \/ \E c \in CallIds : AcceptSaveDriver(c)
  \/ \E c \in CallIds, routeOk \in BOOLEAN : AcceptPost(c, routeOk)
  \/ \E u \in DriverIds, a \in BOOLEAN, x \in OnlineCoordinates : UpdateAvailability(u, a, x)
  \/ Respond

SpecFleet == Init /\ [][NextFleet]_vars

\* Dispatch: a move is created and offered; the drivers accept, decline or let
\* the response timer run out.
\* setTimeout(..., DRIVER_RESPONSE_TIMEOUT): a scheduled timer fires
TimerFires ==
  \E c \in CallIds, m \in OrderIds, r \in 1..MAX_DRIVER_SEARCH_ATTEMPTS :
     HandleDriverResponseTimeout(c, m, r)

\* the event loop resumes call c after its await
CallStep(c) ==
  \/ InitiateNewMoveTxn(c)
  \/ AcceptRetry(c)
  \/ AcceptSaveMove(c)
  \/ AcceptSaveDriver(c)
  \/ \E routeOk \in BOOLEAN : AcceptPost(c, routeOk)
  \/ TimeoutRejection(c)

NextDispatch ==
  \/ \E c \in CallIds, u \in OrderingCustomerIds, v \in VehicleTypes,
        x \in DeliveryCoordinates, s \in BOOLEAN :
        InitiateNewMove(c, u, v, x, s, MaxOrders)
  \/ \E c \in CallIds, m \in OrderIds, u \in DriverIds : AcceptMoveRequest(c, m, u)
  \/ \E m \in OrderIds, u \in DriverIds : HandleDriverRejection(m, u)
  \/ \E u \in DriverIds, a \in BOOLEAN, x \in OnlineCoordinates : UpdateAvailability(u, a, x)
  \/ TimerFires
  \/ \E c \in CallIds : CallStep(c)
  \/ Respond

\* Node.js runs every timer that is due and every continuation and response
\* that is ready; what users do is up to them.
SpecDispatch ==
  /\ Init /\ [][NextDispatch]_vars
  /\ WF_vars(TimerFires)
  /\ \A c \in CallIds : WF_vars(CallStep(c))
  /\ WF_vars(Respond)

\* -------------------------------------------------------------------- claims

\* C1: in every reachable state no driver is available while being the
\* assigned driver of a move in ACCEPTED, ARRIVED_AT_PICKUP, PICKED_UP or
\* ARRIVED_AT_DELIVERY.
C1_NoAvailableDriverOnActiveMove ==
  \A m \in MoveIds :
     (/\ moves[m].status \in {ACCEPTED, ARRIVED_AT_PICKUP, PICKED_UP, ARRIVED_AT_DELIVERY}
      /\ moves[m].driver # NoDriver)
       => ~drivers[moves[m].driver].isAvailable

C3_AcceptAllOrNothing ==
  [][\A m \in MoveIds :
       /\ moves'[m].status \in {PENDING, NO_DRIVERS_AVAILABLE}
            => moves'[m].driver = NoDriver
       /\ moves'[m].status \in {ACCEPTED, ARRIVED_AT_PICKUP, PICKED_UP,
                                ARRIVED_AT_DELIVERY, DELIVERED}
            => moves'[m].driver # NoDriver
       /\ (moves[m].driver = NoDriver /\ moves'[m].driver # NoDriver)
            => /\ moves'[m].status = ACCEPTED
               /\ ~drivers'[moves'[m].driver].isAvailable]_vars

\* the state right after the accept transaction committed
C3_Witness ==
  \E c \in CallIds :
     /\ calls[c].op = "acceptMoveRequest" /\ calls[c].pc = "post"
     /\ moves[calls[c].m].driver = calls[c].u
     /\ moves[calls[c].m].status = ACCEPTED
     /\ ~drivers[calls[c].u].isAvailable

\* C4: whenever acceptMoveRequest returns an error, the call has changed
\* neither the move's status and driver nor the driver's availability: the
\* error is returned from a point before the call's transaction committed.
C4_AcceptErrorWroteNothing ==
  [][\A c \in CallIds :
       (/\ calls[c].op = "acceptMoveRequest"
        /\ calls'[c].op = "idle"
        /\ ret' # None
        /\ ret'.code # 200)
         => calls[c].pc # "post"]_vars

\* C5: once move.driver is set, no step changes or clears it.
C5_DriverNeverReassigned ==
  [][\A m \in MoveIds :
       moves[m].driver # NoDriver => moves'[m].driver = moves[m].driver]_vars

\* a cancel of a move with a driver succeeded and the driver is still recorded
C5_Witness ==
  /\ ret.op = "cancelMoveRequest" /\ ret.code = 200
  /\ moves[ret.m].driver # NoDriver
  /\ moves[ret.m].status \in {CANCELLED_BY_CUSTOMER, CANCELLED_BY_DRIVER, CANCELLED_BY_ADMIN}

\* C6: every change of a move's stored status is a source -> target pair of
\* the legal-transition table; a move in a terminal state never changes status.
C6_OnlyLegalTransitions ==
  [][\A m \in MoveIds :
       (moves[m].status # NoMove /\ moves'[m].status # moves[m].status)
         => moves'[m].status \in flow(moves[m].status)]_vars

\* C7: updateMoveProgress by the assigned driver with a target that the
\* transition table does not list for the move's current status (any target
\* when the move is terminal) returns 400 and changes neither the Move nor
\* any Driver document.
C7_IllegalProgressRejected ==
  [][\A c \in CallIds :
       (/\ calls[c].op = "idle"
        /\ calls'[c].op = "updateMoveProgress" \/ ret'.op = "updateMoveProgress")
         => \A m \in MoveIds, u \in DriverIds :
              moves[m].driver = u
                => \A s \in moveStatus \ flow(moves[m].status) :
                     UpdateMoveProgress(c, m, u, s)
                       => /\ ret' = ProgressRet(m, u, 400)
                          /\ moves' = moves
                          /\ drivers' = drivers]_vars

\* the assigned driver's progress update on a move the customer cancelled
\* was rejected
C7_Witness ==
  /\ ret.op = "updateMoveProgress" /\ ret.code = 400
  /\ moves[ret.m].status = CANCELLED_BY_CUSTOMER
  /\ moves[ret.m].driver = ret.u

\* C8: cancelMoveRequest succeeds only for the move's customer on a PENDING or
\* ACCEPTED move, the assigned driver on an ACCEPTED or ARRIVED_AT_PICKUP
\* move, and an admin on a non-terminal move.
C8_CancelOnlyWhereAllowed ==
  (ret.op = "cancelMoveRequest" /\ ret.code = 200)
    => \/ ret.role = CUSTOMER /\ ret.from \in {PENDING, ACCEPTED}
       \/ ret.role = DRIVER /\ ret.from \in {ACCEPTED, ARRIVED_AT_PICKUP}
       \/ ret.role = ADMIN /\ ret.from \notin terminalStates

\* C9: every step that takes a move with an assigned driver into a
\* CANCELLED_BY_* status leaves that driver available.
C9_CancelReleasesDriver ==
  [][\A m \in MoveIds :
       (/\ moves[m].driver # NoDriver
        /\ moves'[m].status # moves[m].status
        /\ moves'[m].status \in {CANCELLED_BY_CUSTOMER, CANCELLED_BY_DRIVER,
                                 CANCELLED_BY_ADMIN})
         => drivers'[moves[m].driver].isAvailable]_vars

\* C10: the step that takes a move from ARRIVED_AT_DELIVERY to DELIVERED makes
\* its driver available at the move's delivery coordinates, and marks the
\* payment completed when the payment method is CASH.
C10_DeliveredReleasesDriverAndSettlesCash ==
  [][\A m \in MoveIds :
       (moves[m].status = ARRIVED_AT_DELIVERY /\ moves'[m].status = DELIVERED)
         => /\ drivers'[moves[m].driver].isAvailable
            /\ drivers'[moves[m].driver].currentLocation = moves[m].delivery
            /\ paymentMethod[m] = "CASH" => moves'[m].payStatus = "completed"]_vars

\* a cash move was delivered: paid, and the driver is available at the drop-off
C10_Witness ==
  /\ ret.op = "updateMoveProgress" /\ ret.code = 200
  /\ moves[ret.m].status = DELIVERED
  /\ paymentMethod[ret.m] = "CASH"
  /\ moves[ret.m].payStatus = "completed"
  /\ drivers[ret.u].isAvailable
  /\ drivers[ret.u].currentLocation = moves[ret.m].delivery
  /\ moves[ret.m].delivery # Origin

\* C11: payment finalization (cash: marked paid and announced; card: checkout
\* session created and its link sent) runs only in the updateMoveProgress call
\* that takes the move to DELIVERED: a call that ran a payment branch returned
\* success and left the move DELIVERED.
C11_PaymentOnlyOnDelivery ==
  (ret.op = "updateMoveProgress" /\ ret.payment # "none")
    => /\ ret.code = 200
       /\ moves[ret.m].status = DELIVERED

\* C12: in every reachable state a customer owns at most one move that is not
\* in a terminal state, also when two initiateNewMove calls of the customer
\* run concurrently.
C12_OneActiveMovePerCustomer ==
  \A u \in CustomerIds :
     Cardinality({ m \in MoveIds : /\ moves[m].status \notin terminalStates \cup {NoMove, RolledBack}
                                   /\ moves[m].customer = u }) <= 1

\* a decline of move m by its current candidate is being handled in this step:
\* that driver's reject call, or the rejection that the expired timer awaits
DeclineByCurrentCandidate(m) ==
  /\ pendingDriverNotifications[m] # NoNotificationState
  /\ \/ \E u \in DriverIds :
          /\ pendingDriverNotifications[m].currentDriverId = u
          /\ HandleDriverRejection(m, u)
     \/ \E c \in CallIds :
          /\ calls[c].op = "handleDriverResponseTimeout"
          /\ calls[c].m = m
          /\ TimeoutRejection(c)

\* C13: whenever a solicitation attempt is due (the creation of an immediate
\* move, or a decline by the current candidate of a PENDING move) and no
\* eligible driver is outside the exclusion set, the step leaves the move
\* NO_DRIVERS_AVAILABLE with no Pending Solicitation and no timer.
C13_ExhaustionEndsInNoDrivers ==
  [][\A m \in MoveIds :
       /\ (/\ moves[m].status = NoMove
           /\ moves'[m].status \notin {NoMove, RolledBack}
           /\ ret'.op = "initiateNewMove"
           /\ \E c \in CallIds : calls[c].op = "initiateNewMove" /\ ~calls[c].scheduled
                                   /\ calls'[c].op = "idle"
           /\ EligibleDrivers(moves'[m].vehicleType) = {})
            => /\ moves'[m].status = NO_DRIVERS_AVAILABLE
               /\ pendingDriverNotifications'[m] = NoNotificationState
       /\ (/\ moves[m].status = PENDING
           /\ EligibleDrivers(moves[m].vehicleType)
                 \ pendingDriverNotifications[m].excludedDriverIds = {}
           /\ DeclineByCurrentCandidate(m))
            => /\ moves'[m].status = NO_DRIVERS_AVAILABLE
               /\ pendingDriverNotifications'[m] = NoNotificationState
               /\ \A t \in timers' : t.moveId # m]_vars

\* C14: the attempt counter of a move never exceeds MAX_DRIVER_SEARCH_ATTEMPTS;
\* a decline by the current candidate of a PENDING move in a round below the
\* maximum either raises the counter by exactly one or, with nobody left to
\* ask, ends the move as NO_DRIVERS_AVAILABLE; a decline in the last round
\* ends it as NO_DRIVERS_AVAILABLE with no Pending Solicitation.
C14_RoundsBoundedAndCounted ==
  [][\A m \in MoveIds :
       /\ pendingDriverNotifications'[m].attempt <= MAX_DRIVER_SEARCH_ATTEMPTS
       /\ (moves[m].status = PENDING /\ DeclineByCurrentCandidate(m))
            => IF pendingDriverNotifications[m].attempt >= MAX_DRIVER_SEARCH_ATTEMPTS
                 THEN /\ moves'[m].status = NO_DRIVERS_AVAILABLE
                      /\ pendingDriverNotifications'[m] = NoNotificationState
                 ELSE \/ pendingDriverNotifications'[m].attempt
                           = pendingDriverNotifications[m].attempt + 1
                      \/ moves'[m].status = NO_DRIVERS_AVAILABLE]_vars

\* C15: a reject call by a driver who is not the current candidate of the
\* move (a repeated reject, a driver never asked, a move without a Pending
\* Solicitation) changes neither the Move documents, nor the Pending
\* Solicitations with their attempt counts, nor the timers.
C15_StrangerRejectIsNoOp ==
  [][\A m \in MoveIds, u \in DriverIds :
       (/\ pendingDriverNotifications[m].currentDriverId # u
        /\ HandleDriverRejection(m, u))
         => /\ moves' = moves
            /\ pendingDriverNotifications' = pendingDriverNotifications
            /\ timers' = timers]_vars

\* C16: of two decline events for one solicitation round (a reject and the
\* timer expiry, in either order or racing) the first advances the protocol
\* by one round (attempt count and exclusion set grow by one, or the move
\* ends NO_DRIVERS_AVAILABLE) and the second, which finds the round gone,
\* changes nothing.
C16_TwoDeclinesAdvanceOnce ==
  [][\A m \in MoveIds :
       LET old == pendingDriverNotifications[m]
           new == pendingDriverNotifications'[m]
       IN
       /\ (moves[m].status = PENDING /\ DeclineByCurrentCandidate(m))
            => \/ moves'[m].status = NO_DRIVERS_AVAILABLE
               \/ /\ new.attempt = old.attempt + 1
                  /\ old.excludedDriverIds \subseteq new.excludedDriverIds
                  /\ Cardinality(new.excludedDriverIds)
                       = Cardinality(old.excludedDriverIds) + 1
       /\ (/\ old = NoNotificationState
           /\ \/ \E u \in DriverIds : HandleDriverRejection(m, u)
              \/ \E c \in CallIds : /\ calls[c].op = "handleDriverResponseTimeout"
                                    /\ calls[c].m = m
                                    /\ TimeoutRejection(c))
            => /\ moves' = moves
               /\ pendingDriverNotifications' = pendingDriverNotifications
               /\ timers' = timers]_vars

C18_OnlyCandidateAccepts ==
  \A c \in CallIds :
     (calls[c].op = "acceptMoveRequest" /\ calls[c].pc = "post")
       => calls[c].notificationState.currentDriverId = calls[c].u

\* C19: updateMoveProgress on an existing move by a user who is not its
\* assigned driver (any driver when the move has none) returns 403 and
\* changes neither the Move documents (status, payment state) nor any Driver
\* document.
C19_ForeignProgressForbidden ==
  [][\A c \in CallIds :
       (/\ calls[c].op = "idle"
        /\ calls'[c].op = "updateMoveProgress" \/ ret'.op = "updateMoveProgress")
         => \A m \in MoveIds, u \in DriverIds :
              (~NotFound(m) /\ moves[m].driver # u)
                => \A s \in moveStatus :
                     UpdateMoveProgress(c, m, u, s)
                       => /\ ret' = ProgressRet(m, u, 403)
                          /\ moves' = moves
                          /\ drivers' = drivers
                          /\ paymentMethod' = paymentMethod]_vars

\* a driver other than the one on the move tried to advance it and got 403
C19_Witness ==
  /\ ret.op = "updateMoveProgress" /\ ret.code = 403
  /\ moves[ret.m].driver \notin {NoDriver, ret.u}
  /\ moves[ret.m].status = ARRIVED_AT_DELIVERY

\* C20: when the route computation fails after the accept transaction has
\* committed, acceptMoveRequest still returns success, with the caller the
\* driver of the move.
C20_RouteFailureStillSucceeds ==
  [][\A c \in CallIds :
       (/\ calls[c].op = "acceptMoveRequest"
        /\ calls[c].pc = "post"
        /\ AcceptPost(c, FALSE))
         => /\ ret'.code = 200
            /\ moves'[calls[c].m].driver = calls[c].u]_vars

\* C21: when initiateNewMove returns an error, the call has persisted no Move
\* document and has left no Pending Solicitation and no response timer behind.
C21_FailedCreateLeavesNothing ==
  [][(ret'.op = "initiateNewMove" /\ ret'.code # 200)
       => /\ \A m \in MoveIds : NotFound(m)' \/ moves'[m] = moves[m]
          /\ pendingDriverNotifications' = pendingDriverNotifications
          /\ timers' = timers]_vars

\* C22: whatever the geo provider answers to the attempt that follows it
\* (a failure included), a decline by the current candidate of a PENDING move
\* never leaves the move PENDING with no Pending Solicitation and no timer.
C22_DeclineNeverStrandsMove ==
  [][\A m \in MoveIds :
       (moves[m].status = PENDING /\ DeclineByCurrentCandidate(m))
         => ~ /\ moves'[m].status = PENDING
              /\ pendingDriverNotifications'[m] = NoNotificationState
              /\ \A t \in timers' : t.moveId # m]_vars

\* C23: a response timer that fires when its round is over (the move has
\* left PENDING, or the Pending Solicitation holds another timer) changes
\* neither the Move documents nor the Pending Solicitations, in the step that
\* fires it and in the rejection it then awaits.
C23_StaleTimerIsNoOp ==
  [][\A c \in CallIds, m \in MoveIds :
       /\ \A r \in 1..MAX_DRIVER_SEARCH_ATTEMPTS :
            (/\ ~NotFound(m)
             /\ \/ moves[m].status # PENDING
                \/ pendingDriverNotifications[m].timeoutId # [moveId |-> m, round |-> r]
             /\ HandleDriverResponseTimeout(c, m, r))
              => /\ moves' = moves
                 /\ pendingDriverNotifications' = pendingDriverNotifications
       /\ (/\ calls[c].op = "handleDriverResponseTimeout"
           /\ calls[c].m = m
           /\ ~NotFound(m)
           /\ moves[m].status # PENDING
           /\ TimeoutRejection(c))
            => /\ moves' = moves
               /\ pendingDriverNotifications' = pendingDriverNotifications]_vars

\* C24: once a move is ACCEPTED, NO_DRIVERS_AVAILABLE or CANCELLED_* and the
\* handler that took it there has returned, the move has no Pending
\* Solicitation and no scheduled response timer.
C24_SolicitationOnlyWhilePending ==
  (ret = None /\ \A c \in CallIds : calls[c].op = "idle")
    => \A m \in MoveIds :
         moves[m].status \in { ACCEPTED, NO_DRIVERS_AVAILABLE, CANCELLED_BY_CUSTOMER,
                               CANCELLED_BY_DRIVER, CANCELLED_BY_ADMIN }
           => /\ pendingDriverNotifications[m] = NoNotificationState
              /\ \A t \in timers : t.moveId # m

\* C25: every scheduled response timer is the timer stored in the current
\* Pending Solicitation of its move; hence at most one per move.
C25_OnlyTheCurrentTimer ==
  \A t \in timers : pendingDriverNotifications[t.moveId].timeoutId = t

C27_ScheduledMoveNotSolicited ==
  [][\A c \in CallIds :
       (/\ calls[c].op = "initiateNewMove"
        /\ calls[c].scheduled
        /\ calls'[c].op = "idle"
        /\ ret'.code = 200)
         => /\ moves[ret'.m].status = NoMove
            /\ moves'[ret'.m].status = PENDING
            /\ pendingDriverNotifications' = pendingDriverNotifications
            /\ timers' = timers]_vars

\* a scheduled move has just been created while a driver was online: PENDING,
\* nobody asked
C27_Witness ==
  /\ ret.op = "initiateNewMove" /\ ret.code = 200
  /\ moves[ret.m].status = PENDING
  /\ pendingDriverNotifications[ret.m] = NoNotificationState
  /\ timers = {}
  /\ EligibleDrivers(moves[ret.m].vehicleType) # {}

\* C28: in every reachable state a move whose payment status is completed is
\* DELIVERED.
C28_PaidOnlyWhenDelivered ==
  \A m \in MoveIds : moves[m].payStatus = "completed" => moves[m].status = DELIVERED

\* C29: in every reachable state each driver is the assigned driver of at most
\* one move that is not in a terminal state.
C29_OneActiveMovePerDriver ==
  \A d \in DriverIds :
     Cardinality({ m \in MoveIds : /\ ~NotFound(m)
                                   /\ moves[m].status \notin terminalStates
                                   /\ moves[m].driver = d }) <= 1

\* C30: every move for which a solicitation round was started eventually
\* leaves PENDING, when every scheduled response timer eventually fires.
C30_SolicitedMoveLeavesPending ==
  \A m \in OrderIds :
     (moves[m].status = PENDING /\ pendingDriverNotifications[m] # NoNotificationState)
       ~> (moves[m].status # PENDING)

====
